---- MODULE Spec2Model ----
(***************************************************************************)
(* Model of the repair-ticket backend: RepairsService (ticket create,      *)
(* update, remove, statistics, list) and AuthService (register, login,     *)
(* LINE OAuth callback) over the relational store they share.              *)
(*                                                                         *)
(* The store is modelled by its tables:                                    *)
(*   users        sequence of User rows, id = position (autoincrement)     *)
(*   links        set of LineOALink rows                                   *)
(*   tickets      sequence of RepairTicket rows, id = position             *)
(*   attachments  sequence of RepairAttachment rows                        *)
(*   assignees    set of RepairTicketAssignee rows                         *)
(* A handler is one action; the handlers whose store operations can        *)
(* interleave with those of another request (update, lineCallback) are     *)
(* also modelled one store operation per step, built from the same store   *)
(* operators as the whole-handler action.                                  *)
(***************************************************************************)
EXTENDS Integers, Sequences, FiniteSets, TLC

VARIABLES users, links, tickets, attachments, assignees,
          freshMs, res, upd, cb, loginErr

vars == <<users, links, tickets, attachments, assignees,
          freshMs, res, upd, cb, loginErr>>

-----------------------------------------------------------------------------
(* Bounds of the model *)

MaxTickets == 2
MaxFiles == 2

-----------------------------------------------------------------------------
(* JavaScript values *)

\* a property that is not set on the request object reads as undefined:
\* a request is a function whose domain holds the properties that are set
Has(dto, f) == f \in DOMAIN dto

NULL == "null"

\* JavaScript truthiness of the values a request carries (null, '' are falsy)
Truthy(dto, f) == Has(dto, f) /\ dto[f] \notin {NULL, ""}

Range(s) == {s[i] : i \in DOMAIN s}

\* every function whose domain is a subset of `fields`, field f drawn from vals[f]
RECURSIVE PartialRecords(_, _)
PartialRecords(fields, vals) ==
    IF fields = {} THEN {<<>>}
    ELSE LET f == CHOOSE x \in fields : TRUE
             rest == PartialRecords(fields \ {f}, vals)
         IN rest \cup {r @@ (f :> v) : r \in rest, v \in vals[f]}

-----------------------------------------------------------------------------
(* Enums and error kinds *)

RepairTicketStatus ==
    {"PENDING", "IN_PROGRESS", "WAITING_PARTS", "COMPLETED", "CANCELLED"}

UrgencyLevel == {"NORMAL", "URGENT"}

\* what a handler's caller observes: a returned value or a raised exception
Ok(v) == [ok |-> TRUE, value |-> v]
Raise(kind, message) == [ok |-> FALSE, kind |-> kind, message |-> message]

NotFoundException(m) == Raise("NotFound", m)
BadRequestException(m) == Raise("BadRequest", m)
UnauthorizedException(m) == Raise("Unauthorized", m)
\* a store error that no handler translates reaches the caller as it is
StoreError(code) == Raise("Internal", code)

NoCall == [op |-> "none"]

-----------------------------------------------------------------------------
(* Dates *)

\* new Date(s): the instant an ISO string denotes; any other string gives
\* the Invalid Date object
NewDate(s) ==
    CASE s = "2026-01-05" -> "T2026-01-05T00:00:00Z"
      [] s = "2026-02-09" -> "T2026-02-09T00:00:00Z"
      [] OTHER -> "Invalid Date"

\* new Date(): the instant of the call
NowDate == "Tnow"

-----------------------------------------------------------------------------
(* Store: users (the rows the ticket service refers to) *)

UserIds == 1..Len(users)
UserExists(id) == id \in UserIds

\* two accounts made by register before the first ticket request
SeedUsers ==
    << [name |-> "Ann", email |-> "a@x.com", password |-> <<"bcrypt", "pw1">>,
        role |-> "USER", lineId |-> NULL, via |-> "register"],
       [name |-> "Bob", email |-> "b@x.com", password |-> <<"bcrypt", "pw2">>,
        role |-> "USER", lineId |-> NULL, via |-> "register"] >>

\* an id no user row has
NoSuchUser == Len(SeedUsers) + 1

-----------------------------------------------------------------------------
(* Store: repairTicket *)

TicketIds == 1..Len(tickets)
TicketExists(id) == id \in TicketIds

\* the row prisma.repairTicket.create inserts: status, completedAt,
\* cancelledAt and assignedTo are not given by create and take the column
\* defaults (assignedTo, which no handler writes, is <<>> when null and <<n>>
\* when it holds n)
CreatedRow(data) ==
    data @@ [status |-> "PENDING", completedAt |-> NULL, cancelledAt |-> NULL,
             assignedTo |-> <<>>]

\* prisma.repairTicket.create: ticketCode is unique (findByCode looks a ticket
\* up by it with findUnique) and is taken when no millisecond has passed
\* since the last ticket was made; userId refers to a user
TicketCreate(data, attachmentData) ==
    IF ~freshMs THEN [code |-> "P2002"]
    ELSE IF ~UserExists(data.userId) THEN [code |-> "P2003"]
    ELSE [code |-> "ok",
          tickets |-> Append(tickets, CreatedRow(data)),
          attachments |-> attachments \o
              [i \in 1..Len(attachmentData) |->
                  attachmentData[i] @@ [repairTicketId |-> Len(tickets) + 1]],
          id |-> Len(tickets) + 1]

\* prisma.repairTicket.update({where: {id}, data}): P2025 when no row has the id
TicketUpdate(tks, id, data) ==
    IF id \notin 1..Len(tks) THEN [code |-> "P2025"]
    ELSE [code |-> "ok",
          tickets |-> [tks EXCEPT ![id] =
              [f \in DOMAIN tks[id] |->
                  IF f \in DOMAIN data THEN data[f] ELSE tks[id][f]]]]

-----------------------------------------------------------------------------
(* Store: repairTicketAssignee, rows <<repairTicketId, userId>> *)

AssigneeRow(id, userId) == [repairTicketId |-> id, userId |-> userId]

AssigneesOf(rows, id) == {r.userId : r \in {x \in rows : x.repairTicketId = id}}

\* prisma.repairTicketAssignee.deleteMany({where: {repairTicketId: id}})
AssigneeDeleteMany(rows, id) == {r \in rows : r.repairTicketId # id}

\* prisma.repairTicketAssignee.createMany: both columns are foreign keys
\* (P2003 when the ticket or a user is missing); a ticket holds a user at
\* most once (P2002 on a second row for the same pair)
AssigneeCreateMany(rows, tks, id, ids) ==
    IF id \notin 1..Len(tks) \/ \E i \in DOMAIN ids : ~UserExists(ids[i])
    THEN [code |-> "P2003"]
    ELSE IF \/ \E i \in DOMAIN ids : AssigneeRow(id, ids[i]) \in rows
            \/ \E i, j \in DOMAIN ids : i # j /\ ids[i] = ids[j]
    THEN [code |-> "P2002"]
    ELSE [code |-> "ok",
          rows |-> rows \cup {AssigneeRow(id, ids[i]) : i \in DOMAIN ids}]

-----------------------------------------------------------------------------
(* RepairsService.create *)

ALLOWED_MIME_TYPES == {"image/jpeg", "image/png", "image/gif", "image/webp"}
MAX_FILE_SIZE == 5 * 1024 * 1024

\* file names are sequences of characters
Letters ==
    {"a","b","c","d","e","f","g","h","i","j","k","l","m","n","o","p","q","r",
     "s","t","u","v","w","x","y","z","A","B","C","D","E","F","G","H","I","J",
     "K","L","M","N","O","P","Q","R","S","T","U","V","W","X","Y","Z"}
Digits == {"0","1","2","3","4","5","6","7","8","9"}

\* path.basename: trailing separators dropped, then what follows the last one
RECURSIVE StripTrailingSep(_)
StripTrailingSep(s) ==
    IF Len(s) > 1 /\ s[Len(s)] = "/" THEN StripTrailingSep(SubSeq(s, 1, Len(s) - 1))
    ELSE s

RECURSIVE AfterLastSep(_, _)
AfterLastSep(s, i) ==
    IF i = 0 THEN s
    ELSE IF s[i] = "/" THEN SubSeq(s, i + 1, Len(s))
    ELSE AfterLastSep(s, i - 1)

Basename(s) ==
    LET t == StripTrailingSep(s) IN
    IF t = <<"/">> THEN t ELSE AfterLastSep(t, Len(t))

\* basename.replace(/[^a-zA-Z0-9.-]/g, '_')
sanitizeFilename(filename) ==
    LET b == Basename(filename) IN
    [i \in 1..Len(b) |->
        IF b[i] \in Letters \cup Digits \cup {".", "-"} THEN b[i] ELSE "_"]

\* a loop that logs and leaves out a file that fails a check, as it does a
\* file whose upload throws
RECURSIVE UploadLoopSkipInvalid(_, _, _)
UploadLoopSkipInvalid(files, i, attachmentData) ==
    IF i > Len(files) THEN [thrown |-> FALSE, attachmentData |-> attachmentData]
    ELSE LET file == files[i] IN
         IF \/ file.mimetype \notin ALLOWED_MIME_TYPES
            \/ file.size > MAX_FILE_SIZE
            \/ file.uploadThrows
         THEN UploadLoopSkipInvalid(files, i + 1, attachmentData)
         ELSE UploadLoopSkipInvalid(files, i + 1,
                  Append(attachmentData,
                      [filename |-> sanitizeFilename(file.originalname),
                       fileSize |-> file.size,
                       mimeType |-> file.mimetype]))

\* the loop over the files: the first file that fails a check ends the call
\* with its BadRequestException (the catch re-throws it); a file whose upload
\* throws is logged and left out; the others become attachment rows
RECURSIVE UploadLoop(_, _, _)
UploadLoop(files, i, attachmentData) ==
    IF i > Len(files) THEN [thrown |-> FALSE, attachmentData |-> attachmentData]
    ELSE LET file == files[i] IN
         IF file.mimetype \notin ALLOWED_MIME_TYPES
         THEN [thrown |-> TRUE, error |-> BadRequestException("Invalid file type")]
         ELSE IF file.size > MAX_FILE_SIZE
         THEN [thrown |-> TRUE,
               error |-> BadRequestException("File size exceeds 5MB limit")]
         ELSE IF file.uploadThrows
         THEN UploadLoop(files, i + 1, attachmentData)
         ELSE UploadLoop(files, i + 1,
                  Append(attachmentData,
                      [filename |-> sanitizeFilename(file.originalname),
                       fileSize |-> file.size,
                       mimeType |-> file.mimetype]))

OrElse(dto, f, default) == IF Truthy(dto, f) THEN dto[f] ELSE default

\* the row create writes for a request (the reporter's contact fields and
\* the category, which no other handler reads or writes, are left out)
CreateData(userId, dto) ==
    [problemTitle |-> dto.problemTitle,
     problemDescription |-> OrElse(dto, "problemDescription", NULL),
     location |-> dto.location,
     urgency |-> OrElse(dto, "urgency", "NORMAL"),
     userId |-> userId,
     notes |-> OrElse(dto, "notes", NULL),
     scheduledAt |-> IF Truthy(dto, "scheduledAt") THEN NewDate(dto.scheduledAt)
                     ELSE NowDate]

\* res records the call: its files, the store it met (the number of tickets
\* and of attachment rows, whether the ticket code was free) and its outcome
Create(userIds, dtos, fileLists) ==
    /\ Len(tickets) < MaxTickets
    /\ \E userId \in userIds, dto \in dtos, files \in fileLists :
         LET up == UploadLoop(files, 1, <<>>)
             call == [op |-> "create", files |-> files,
                      before |-> [tickets |-> Len(tickets),
                                  attachments |-> Len(attachments),
                                  codeFree |-> freshMs]]
         IN
         IF up.thrown
         THEN /\ res' = call @@ [out |-> up.error]
              /\ UNCHANGED <<tickets, attachments, freshMs>>
         ELSE LET w == TicketCreate(CreateData(userId, dto), up.attachmentData) IN
              IF w.code # "ok"
              THEN /\ res' = call @@ [out |-> StoreError(w.code)]
                   /\ UNCHANGED <<tickets, attachments, freshMs>>
              ELSE /\ tickets' = w.tickets
                   /\ attachments' = w.attachments
                   /\ freshMs' = FALSE
                   /\ res' = call @@ [out |-> Ok([id |-> w.id])]
    /\ UNCHANGED <<users, links, assignees, upd, cb, loginErr>>

\* the millisecond clock behind Date.now() moves on: the next ticket code
\* REP-<ms> differs from every code generated so far
Tick ==
    /\ ~freshMs
    /\ freshMs' = TRUE
    /\ UNCHANGED <<users, links, tickets, attachments, assignees, res, upd, cb,
                   loginErr>>

-----------------------------------------------------------------------------
(* RepairsService.update *)

PlainFields ==
    {"status", "notes", "problemTitle", "problemDescription", "location",
     "urgency"}
DateFields == {"scheduledAt", "completedAt"}

\* updateData with every field tested for truthiness, as the dates are
UpdateDataTruthy(dto) ==
    [f \in {g \in PlainFields \cup DateFields : Truthy(dto, g)} |->
        IF f \in DateFields THEN NewDate(dto[f]) ELSE dto[f]]

\* updateData: a plain field is copied when it is not undefined, a date when
\* it is truthy
UpdateData(dto) ==
    LET plain == {f \in PlainFields : Has(dto, f)}
        dates == {f \in DateFields : Truthy(dto, f)}
    IN [f \in plain \cup dates |->
           IF f \in dates THEN NewDate(dto[f]) ELSE dto[f]]

\* the store refuses a write that carries the Invalid Date object, before it
\* looks for the row
InvalidData(data) == \E f \in DOMAIN data : data[f] = "Invalid Date"

\* the catch block of update
UpdateCatch(code) ==
    CASE code = "P2025" -> NotFoundException("Repair ticket not found")
      [] code = "P2003" -> BadRequestException("invalid reference")
      [] OTHER -> StoreError(code)

\* a sync that tests the list for truthiness and length at once, so that an
\* empty list is skipped like an absent one
SyncAssigneesSkipEmpty(rows, tks, id, dto) ==
    IF ~Has(dto, "assigneeIds") \/ Len(dto.assigneeIds) = 0
    THEN [code |-> "ok", rows |-> rows]
    ELSE LET c == AssigneeCreateMany(AssigneeDeleteMany(rows, id), tks, id,
                      dto.assigneeIds)
         IN IF c.code = "ok" THEN c
            ELSE [code |-> c.code, rows |-> AssigneeDeleteMany(rows, id)]

\* the assignee sync of update as far as it gets: deleteMany, then createMany
\* when the list is not empty; what deleteMany removed stays removed when
\* createMany throws
SyncAssignees(rows, tks, id, dto) ==
    IF ~Has(dto, "assigneeIds") THEN [code |-> "ok", rows |-> rows]
    ELSE LET deleted == AssigneeDeleteMany(rows, id) IN
         IF Len(dto.assigneeIds) = 0 THEN [code |-> "ok", rows |-> deleted]
         ELSE LET c == AssigneeCreateMany(deleted, tks, id, dto.assigneeIds) IN
              IF c.code = "ok" THEN c ELSE [code |-> c.code, rows |-> deleted]

\* prisma.repairTicket.update with the assignees included in what it returns
WriteTicket(tks, id, dto) ==
    LET data == UpdateData(dto) IN
    IF InvalidData(data) THEN [code |-> "validation", tickets |-> tks]
    ELSE LET w == TicketUpdate(tks, id, data) IN
         IF w.code = "ok" THEN w ELSE [code |-> w.code, tickets |-> tks]

UpdateResult(rows, id) == Ok([id |-> id, assignees |-> AssigneesOf(rows, id)])

Update(ids, dtos) ==
    /\ \E id \in ids, dto \in dtos :
         LET s == SyncAssignees(assignees, tickets, id, dto)
             w == WriteTicket(tickets, id, dto)
         IN /\ assignees' = s.rows
            /\ tickets' = IF s.code = "ok" THEN w.tickets ELSE tickets
            /\ res' = [op |-> "update", id |-> id, dto |-> dto,
                       before |-> [assignees |-> AssigneesOf(assignees, id),
                                   ticket |-> IF TicketExists(id)
                                              THEN <<tickets[id]>> ELSE <<>>],
                       out |-> IF s.code # "ok" THEN UpdateCatch(s.code)
                               ELSE IF w.code # "ok" THEN UpdateCatch(w.code)
                               ELSE UpdateResult(s.rows, id)]
    /\ UNCHANGED <<users, links, attachments, freshMs, upd, cb, loginErr>>

-----------------------------------------------------------------------------
(* RepairsService.remove *)

Remove(ids) ==
    /\ \E id \in ids :
         LET w == TicketUpdate(tickets, id,
                      [status |-> "CANCELLED", cancelledAt |-> NowDate])
         IN IF w.code = "ok"
            THEN /\ tickets' = w.tickets
                 /\ res' = [op |-> "remove", id |-> id, out |-> Ok([id |-> id])]
            ELSE /\ tickets' = tickets
                 /\ res' = [op |-> "remove", id |-> id, out |-> StoreError(w.code)]
    /\ UNCHANGED <<users, links, attachments, assignees, freshMs, upd, cb,
                   loginErr>>

-----------------------------------------------------------------------------
(* RepairsService.getStatistics *)

\* prisma.repairTicket.groupBy({by: ['status'], _count: {status: true}}):
\* one group per status value some row holds
GroupByStatus ==
    {[status |-> s, count |-> Cardinality({i \in TicketIds : tickets[i].status = s})]
        : s \in {tickets[i].status : i \in TicketIds}}

\* stats.reduce((acc, curr) => acc + curr._count.status, 0)
RECURSIVE SumCounts(_)
SumCounts(stats) ==
    IF stats = {} THEN 0
    ELSE LET g == CHOOSE x \in stats : TRUE IN g.count + SumCounts(stats \ {g})

\* stats.find(s => s.status === status)?._count.status || 0
getCount(stats, status) ==
    IF \E g \in stats : g.status = status
    THEN (CHOOSE g \in stats : g.status = status).count
    ELSE 0

\* the statistics with one status name misspelt
StatisticsMisspelt ==
    LET stats == GroupByStatus IN
    [total |-> SumCounts(stats),
     pending |-> getCount(stats, "PENDING"),
     inProgress |-> getCount(stats, "IN_PROGRESS"),
     waitingParts |-> getCount(stats, "WAITING_PART"),
     completed |-> getCount(stats, "COMPLETED"),
     cancelled |-> getCount(stats, "CANCELLED")]

Statistics ==
    LET stats == GroupByStatus IN
    [total |-> SumCounts(stats),
     pending |-> getCount(stats, "PENDING"),
     inProgress |-> getCount(stats, "IN_PROGRESS"),
     waitingParts |-> getCount(stats, "WAITING_PARTS"),
     completed |-> getCount(stats, "COMPLETED"),
     cancelled |-> getCount(stats, "CANCELLED")]

GetStatistics ==
    /\ res' = [op |-> "getStatistics", out |-> Ok(Statistics)]
    /\ UNCHANGED <<users, links, tickets, attachments, assignees, freshMs, upd,
                   cb, loginErr>>

-----------------------------------------------------------------------------
(* RepairsService.findAll *)

\* the where object: userId when the caller is no admin and userId is truthy,
\* then each filter that is truthy
FindAllWhere(params) ==
    LET keys ==
          {k \in {"userId"} :
              ~(Has(params, "isAdmin") /\ params.isAdmin)
              /\ Has(params, "userId") /\ params.userId # 0}
          \cup {k \in {"status", "urgency"} : Has(params, k) /\ params[k] # ""}
          \cup {k \in {"assignedTo"} : Has(params, k) /\ params[k] # 0}
    IN [k \in keys |-> IF k = "assignedTo" THEN <<params[k]>> ELSE params[k]]

Matches(row, where) == \A k \in DOMAIN where : row[k] = where[k]

\* ids of the rows in orderBy createdAt desc: the latest created first
RECURSIVE NewestFirst(_)
NewestFirst(n) == IF n = 0 THEN <<>> ELSE <<n>> \o NewestFirst(n - 1)

\* the ids among `ids`, in their order, whose rows match
SelectIds(ids, where) ==
    LET F[i \in 0..Len(ids)] ==
          IF i = 0 THEN <<>>
          ELSE IF Matches(tickets[ids[i]], where) THEN Append(F[i - 1], ids[i])
          ELSE F[i - 1]
    IN F[Len(ids)]

\* take: limit (undefined takes every row)
Take(s, params) ==
    IF Has(params, "limit") /\ params.limit < Len(s)
    THEN SubSeq(s, 1, params.limit) ELSE s

FindAllResult(params) ==
    Take(SelectIds(NewestFirst(Len(tickets)), FindAllWhere(params)), params)

FindAll(paramSet) ==
    /\ \E params \in paramSet :
         res' = [op |-> "findAll", params |-> params,
                 out |-> Ok(FindAllResult(params))]
    /\ UNCHANGED <<users, links, tickets, attachments, assignees, freshMs, upd,
                   cb, loginErr>>

-----------------------------------------------------------------------------
(* Requests in flight: none in the specifications of whole handlers *)

Procs == {"r1", "r2"}
Idle == [p \in Procs |-> [pc |-> "idle"]]

NoLoginErr == [nouser |-> <<>>, badpw |-> <<>>]

-----------------------------------------------------------------------------
(* The ticket service, one handler per step *)

Init ==
    /\ users = SeedUsers
    /\ links = {}
    /\ tickets = <<>>
    /\ attachments = <<>>
    /\ assignees = {}
    /\ freshMs = TRUE
    /\ res = NoCall
    /\ upd = Idle
    /\ cb = Idle
    /\ loginErr = NoLoginErr

\* ids a request may name: every ticket there can be, and one there never is
RequestIds == 1..(MaxTickets + 1)

BasicDto == [problemTitle |-> "printer", location |-> "room 1"]

AssigneeLists == {<<>>, <<1>>, <<1, 2>>, <<NoSuchUser>>, <<2, NoSuchUser>>}

\* update requests that give an assignee list, and two that give none
AssigneeDtos ==
    {[assigneeIds |-> l] : l \in AssigneeLists}
    \cup {<<>>, [status |-> "IN_PROGRESS"]}

Next ==
    \/ Tick
    \/ Create({1}, {BasicDto}, {<<>>})
    \/ Update(RequestIds, AssigneeDtos)

Spec == Init /\ [][Next]_vars

-----------------------------------------------------------------------------
(* Status changes and the statistics *)

StatusDtos == {[status |-> s] : s \in RepairTicketStatus}

NextStats ==
    \/ Tick
    \/ Create({1}, {BasicDto}, {<<>>})
    \/ Update(RequestIds, StatusDtos)
    \/ Remove(RequestIds)
    \/ GetStatistics

SpecStats == Init /\ [][NextStats]_vars

-----------------------------------------------------------------------------
(* Properties of update's assignee sync (Spec) *)

UpdateDone == res.op = "update"
UpdateOk == res.op = "update" /\ res.out.ok

OtherRows(rows, id) == {r \in rows : r.repairTicketId # id}

\* C3: a successful update whose request has no assigneeIds leaves the
\* assignee rows as they were; a successful update with assigneeIds = []
\* leaves the ticket without assignees and the rows of every other ticket as
\* they were.
C3_AssigneeFrame ==
    [][UpdateOk' =>
         /\ ~Has(res'.dto, "assigneeIds") => assignees' = assignees
         /\ (Has(res'.dto, "assigneeIds") /\ res'.dto.assigneeIds = <<>>) =>
              /\ AssigneesOf(assignees', res'.id) = {}
              /\ OtherRows(assignees', res'.id) = OtherRows(assignees, res'.id)
      ]_vars

\* an empty list has just unassigned a ticket that had two assignees, while
\* another ticket keeps its own
C3_Witness ==
    /\ UpdateOk
    /\ Has(res.dto, "assigneeIds") /\ res.dto.assigneeIds = <<>>
    /\ res.before.assignees = {1, 2}
    /\ AssigneesOf(assignees, res.id) = {}
    /\ OtherRows(assignees, res.id) # {}

\* C7: update of a ticket that does not exist raises not-found whatever the
\* request holds, and update of an existing ticket with an assignee id that
\* no user has raises the client error.
C7_ErrorKinds ==
    UpdateDone =>
        /\ ~TicketExists(res.id) => (~res.out.ok /\ res.out.kind = "NotFound")
        /\ (/\ TicketExists(res.id)
            /\ Has(res.dto, "assigneeIds")
            /\ \E i \in DOMAIN res.dto.assigneeIds :
                   ~UserExists(res.dto.assigneeIds[i]))
           => (~res.out.ok /\ res.out.kind = "BadRequest")

-----------------------------------------------------------------------------
(* Properties of getStatistics (SpecStats) *)

CountOf(status) == Cardinality({i \in TicketIds : tickets[i].status = status})

\* C5: in every store that create, update and remove can reach, getStatistics
\* returns the five status keys, each the number of tickets with that status
\* (0 when there is none), and they add up to total, the number of tickets.
C5_Statistics ==
    LET st == Statistics IN
    /\ DOMAIN st =
         {"total", "pending", "inProgress", "waitingParts", "completed",
          "cancelled"}
    /\ st.pending = CountOf("PENDING")
    /\ st.inProgress = CountOf("IN_PROGRESS")
    /\ st.waitingParts = CountOf("WAITING_PARTS")
    /\ st.completed = CountOf("COMPLETED")
    /\ st.cancelled = CountOf("CANCELLED")
    /\ st.pending + st.inProgress + st.waitingParts + st.completed + st.cancelled
         = st.total
    /\ st.total = Len(tickets)
    /\ res.op = "getStatistics" => res.out = Ok(st)

\* getStatistics has answered for a store with a waiting and a cancelled
\* ticket and no ticket of the other statuses
C5_Witness ==
    /\ res.op = "getStatistics"
    /\ res.out.value.total = 2
    /\ res.out.value.waitingParts = 1
    /\ res.out.value.cancelled = 1
    /\ res.out.value.pending = 0
-----------------------------------------------------------------------------
(* Ticket creation with uploaded files *)

\* an image of exactly the largest size allowed, a document, an image one
\* byte too large, and an image whose upload the storage service fails
FileImage ==
    [mimetype |-> "image/webp", size |-> MAX_FILE_SIZE, uploadThrows |-> FALSE,
     originalname |-> <<".", ".", "/", "a", " ", "b", ".", "w", "e", "b", "p">>]
FileDocument ==
    [mimetype |-> "application/pdf", size |-> 1024, uploadThrows |-> FALSE,
     originalname |-> <<"d", ".", "p", "d", "f">>]
FileTooLarge ==
    [mimetype |-> "image/png", size |-> MAX_FILE_SIZE + 1, uploadThrows |-> FALSE,
     originalname |-> <<"b", ".", "p", "n", "g">>]
FileUploadFails ==
    [mimetype |-> "image/jpeg", size |-> 2048, uploadThrows |-> TRUE,
     originalname |-> <<"c", ".", "j", "p", "g">>]

Files == {FileImage, FileDocument, FileTooLarge, FileUploadFails}

FileLists == UNION {[1..n -> Files] : n \in 0..MaxFiles}

NextCreate ==
    \/ Tick
    \/ Create({1}, {BasicDto}, FileLists)

SpecCreate == Init /\ [][NextCreate]_vars

\* what the claim calls a file that passes validation
PassesValidation(file) ==
    /\ file.mimetype \in {"image/jpeg", "image/png", "image/gif", "image/webp"}
    /\ file.size <= 5242880

ValidFiles(files) == SelectSeq(files, PassesValidation)
NumValid(files) == Len(ValidFiles(files))
NumInvalid(files) == Len(files) - NumValid(files)
EveryUploadSucceeds(files) == \A i \in DOMAIN files : ~files[i].uploadThrows

CreateDone == res.op = "create"

\* the attachment rows of ticket id, in the order they were written
RowsOf(id) ==
    LET IsOf(r) == r.repairTicketId = id IN SelectSeq(attachments, IsOf)

\* C1 as stated: with N valid and M invalid files and every upload
\* succeeding, create succeeds and persists one ticket with exactly N
\* attachment rows.
C1_AsStated ==
    (CreateDone /\ EveryUploadSucceeds(res.files) /\ res.before.codeFree) =>
        /\ res.out.ok
        /\ Len(tickets) = res.before.tickets + 1
        /\ Len(RowsOf(res.out.value.id)) = NumValid(res.files)

\* C1 amended: with every upload succeeding, create succeeds with one new
\* ticket and one attachment row per file when no file fails validation (and
\* the ticket code is free); when some file fails validation it raises the
\* client error and persists neither a ticket nor an attachment row.
C1_CreateAttachments ==
    (CreateDone /\ EveryUploadSucceeds(res.files)) =>
        /\ (NumInvalid(res.files) = 0 /\ res.before.codeFree) =>
              /\ res.out.ok
              /\ Len(tickets) = res.before.tickets + 1
              /\ res.out.value.id = Len(tickets)
              /\ Len(attachments) = res.before.attachments + NumValid(res.files)
              /\ Len(RowsOf(res.out.value.id)) = NumValid(res.files)
              /\ \A i \in 1..NumValid(res.files) :
                    /\ RowsOf(res.out.value.id)[i].mimeType
                         = ValidFiles(res.files)[i].mimetype
                    /\ RowsOf(res.out.value.id)[i].fileSize
                         = ValidFiles(res.files)[i].size
        /\ NumInvalid(res.files) > 0 =>
              /\ ~res.out.ok
              /\ res.out.kind = "BadRequest"
              /\ Len(tickets) = res.before.tickets
              /\ Len(attachments) = res.before.attachments

\* create has been called with a valid image followed by a document, and
\* has raised the client error
C1_Witness ==
    /\ CreateDone
    /\ res.files = <<FileImage, FileDocument>>
    /\ res.before.codeFree
    /\ ~res.out.ok
    /\ res.out.kind = "BadRequest"
-----------------------------------------------------------------------------
(* Listing tickets *)

UrgentDto ==
    [problemTitle |-> "server", location |-> "room 2", urgency |-> "URGENT"]

FindParams ==
    PartialRecords({"userId", "isAdmin", "status", "urgency", "assignedTo", "limit"},
        [userId |-> {1, 2}, isAdmin |-> BOOLEAN, status |-> {"PENDING"},
         urgency |-> {"URGENT"}, assignedTo |-> {1}, limit |-> {1}])

NextFind ==
    \/ Tick
    \/ Create({1, 2}, {BasicDto, UrgentDto}, {<<>>})
    \/ FindAll(FindParams)

SpecFind == Init /\ [][NextFind]_vars

NonAdmin(params) == ~(Has(params, "isAdmin") /\ params.isAdmin)

\* C4: whatever the other parameters and the store hold, findAll by a caller
\* who is no admin returns only tickets that the calling user owns.
C4_OwnTicketsOnly ==
    (res.op = "findAll" /\ NonAdmin(res.params)) =>
        \A i \in Range(res.out.value) :
            /\ Has(res.params, "userId")
            /\ tickets[i].userId = res.params.userId

-----------------------------------------------------------------------------
(* Updating the fields of a ticket *)

FullDto ==
    [problemTitle |-> "printer", location |-> "room 1", notes |-> "urgent",
     problemDescription |-> "no power"]

\* a store that holds one ticket, as create writes it
InitFields ==
    /\ users = SeedUsers
    /\ links = {}
    /\ tickets = <<CreatedRow(CreateData(1, FullDto))>>
    /\ attachments = <<>>
    /\ assignees = {}
    /\ freshMs = FALSE
    /\ res = NoCall
    /\ upd = Idle
    /\ cb = Idle
    /\ loginErr = NoLoginErr

\* a value for each field
FirstValues ==
    [status |-> "IN_PROGRESS", notes |-> "called", scheduledAt |-> "2026-01-05",
     completedAt |-> "2026-02-09", problemTitle |-> "scanner",
     problemDescription |-> "jams", location |-> "room 2", urgency |-> "URGENT"]

\* null, '' and a string that is no date, where the request validation lets
\* them through to a nullable column
OtherValues ==
    [status |-> {}, notes |-> {NULL}, scheduledAt |-> {NULL, "", "tomorrow"},
     completedAt |-> {NULL}, problemTitle |-> {}, problemDescription |-> {NULL},
     location |-> {}, urgency |-> {}]

UpdatableFields == PlainFields \cup DateFields

\* requests with no field, with one field, with every field but one, with
\* every field, and with every field where each nullable one is null
FieldDtos ==
    {<<>>}
    \cup UNION {{(f :> v) : v \in {FirstValues[f]} \cup OtherValues[f]}
                   : f \in UpdatableFields}
    \cup {[f \in UpdatableFields \ {g} |-> FirstValues[f]] : g \in UpdatableFields}
    \cup {FirstValues,
          [f \in UpdatableFields |->
              IF NULL \in OtherValues[f] THEN NULL ELSE FirstValues[f]]}

NextFields == Update({1, 2}, FieldDtos)

SpecFields == InitFields /\ [][NextFields]_vars

Before == res.before.ticket[1]
After == tickets[res.id]

\* C8 as stated: update writes every updatable field that is present in the
\* request, an explicit null included, and leaves every absent field as it
\* was.
C8_AsStated ==
    UpdateOk =>
        \A f \in UpdatableFields :
            IF Has(res.dto, f)
            THEN After[f] = IF f \in DateFields /\ res.dto[f] # NULL
                            THEN NewDate(res.dto[f]) ELSE res.dto[f]
            ELSE After[f] = Before[f]

\* C8 amended: a successful update writes status, notes, problemTitle,
\* problemDescription, location and urgency when they are present in the
\* request, an explicit null included; it writes scheduledAt and completedAt
\* only when the value given is truthy, so that null (or '') leaves the date
\* as it was, like an absent field; every other column is as it was.
C8_FieldsWritten ==
    UpdateOk =>
        /\ \A f \in PlainFields :
              After[f] = IF Has(res.dto, f) THEN res.dto[f] ELSE Before[f]
        /\ \A f \in DateFields :
              After[f] = IF Truthy(res.dto, f) THEN NewDate(res.dto[f])
                         ELSE Before[f]
        /\ \A f \in DOMAIN After \ UpdatableFields : After[f] = Before[f]
        /\ DOMAIN After = DOMAIN Before

\* an update has set notes to null and left the completion date, given as
\* null as well, at the value an earlier update wrote
C8_Witness ==
    /\ UpdateOk
    /\ Has(res.dto, "notes") /\ res.dto.notes = NULL
    /\ Has(res.dto, "completedAt") /\ res.dto.completedAt = NULL
    /\ Before.notes = "called" /\ After.notes = NULL
    /\ Before.completedAt = NewDate("2026-02-09")
    /\ After.completedAt = NewDate("2026-02-09")

-----------------------------------------------------------------------------
(* Concurrent updates: one store operation per step *)

\* a request starts: updateData is built from the request alone
UpdBegin(p, ids, dtos) ==
    /\ upd[p].pc = "idle"
    /\ \E id \in ids, dto \in dtos :
         upd' = [upd EXCEPT ![p] =
                    [pc |-> IF Has(dto, "assigneeIds") THEN "deleteMany"
                            ELSE "write",
                     id |-> id, dto |-> dto, existed |-> TicketExists(id)]]
    /\ UNCHANGED <<users, links, tickets, attachments, assignees, freshMs, res,
                   cb, loginErr>>

UpdDeleteMany(p) ==
    /\ upd[p].pc = "deleteMany"
    /\ assignees' = AssigneeDeleteMany(assignees, upd[p].id)
    /\ upd' = [upd EXCEPT ![p].pc =
                  IF Len(upd[p].dto.assigneeIds) > 0 THEN "createMany"
                  ELSE "write"]
    /\ UNCHANGED <<users, links, tickets, attachments, freshMs, res, cb,
                   loginErr>>

UpdCreateMany(p) ==
    /\ upd[p].pc = "createMany"
    /\ LET c == AssigneeCreateMany(assignees, tickets, upd[p].id,
                    upd[p].dto.assigneeIds)
       IN IF c.code = "ok"
          THEN /\ assignees' = c.rows
               /\ upd' = [upd EXCEPT ![p].pc = "write"]
          ELSE /\ assignees' = assignees
               /\ upd' = [upd EXCEPT ![p] =
                             upd[p] @@ [out |-> UpdateCatch(c.code)],
                                       ![p].pc = "done"]
    /\ UNCHANGED <<users, links, tickets, attachments, freshMs, res, cb,
                   loginErr>>

UpdWrite(p) ==
    /\ upd[p].pc = "write"
    /\ LET w == WriteTicket(tickets, upd[p].id, upd[p].dto) IN
       /\ tickets' = w.tickets
       /\ upd' = [upd EXCEPT ![p] =
                     upd[p] @@ [out |-> IF w.code = "ok"
                                        THEN UpdateResult(assignees, upd[p].id)
                                        ELSE UpdateCatch(w.code)],
                               ![p].pc = "done"]
    /\ UNCHANGED <<users, links, attachments, assignees, freshMs, res, cb,
                   loginErr>>

ConcLists == {<<>>, <<1>>, <<2>>, <<1, 2>>}

ConcDtos ==
    {[assigneeIds |-> l] : l \in ConcLists} \cup {[status |-> "IN_PROGRESS"]}

NextConc ==
    \/ Tick
    \/ Create({1}, {BasicDto}, {<<>>})
    \/ \E p \in Procs : UpdBegin(p, RequestIds, ConcDtos)
    \/ \E p \in Procs : UpdDeleteMany(p)
    \/ \E p \in Procs : UpdCreateMany(p)
    \/ \E p \in Procs : UpdWrite(p)

SpecConc == Init /\ [][NextConc]_vars

\* both requests have finished, and both gave an assignee list for the same
\* ticket, which existed when they started
BothReplaced(id) ==
    \A p \in Procs :
        /\ upd[p].pc = "done"
        /\ upd[p].id = id
        /\ upd[p].existed
        /\ Has(upd[p].dto, "assigneeIds")

\* C9: when updates that each give an assignee list for the same ticket run
\* with their store operations interleaved, then once all have finished the
\* ticket's assignees are exactly one of the lists given, never a mixture
\* (stated here for the runs in which every call succeeds).
C9_LastWriteWins ==
    \A id \in RequestIds :
        (BothReplaced(id) /\ \A p \in Procs : upd[p].out.ok) =>
            AssigneesOf(assignees, id)
                \in {Range(upd[p].dto.assigneeIds) : p \in Procs}

-----------------------------------------------------------------------------
(* AuthService: password hashing and the store operations on users *)

\* bcrypt.hash and bcrypt.compare: a hash matches the password it was made of
Hash(password) == <<"bcrypt", password>>
Compare(password, hash) == hash = <<"bcrypt", password>>

FindByEmail(usrs, email) == {i \in 1..Len(usrs) : usrs[i].email = email}

\* a user table that accepts a second row with an email it already holds
UserCreateNoUnique(usrs, data) ==
    [code |-> "ok", users |-> Append(usrs, data), id |-> Len(usrs) + 1]

\* prisma.user.create: email is unique (P2002 with target email)
UserCreate(usrs, data) ==
    IF FindByEmail(usrs, data.email) # {} THEN [code |-> "P2002"]
    ELSE [code |-> "ok", users |-> Append(usrs, data), id |-> Len(usrs) + 1]

-----------------------------------------------------------------------------
(* AuthService.register *)

RegisterOutcome(usrs, dto) ==
    LET w == UserCreate(usrs,
                 [name |-> dto.name, email |-> dto.email,
                  password |-> Hash(dto.password), role |-> "USER",
                  lineId |-> IF Has(dto, "lineId") THEN dto.lineId ELSE NULL,
                  via |-> "register"])
    IN IF w.code = "ok"
       THEN [users |-> w.users,
             out |-> Ok([message |-> "Register success", userId |-> w.id,
                         role |-> w.users[w.id].role])]
       ELSE [users |-> usrs,
             out |-> IF w.code = "P2002"
                     THEN BadRequestException("Email already exists")
                     ELSE StoreError(w.code)]

Register(dtos) ==
    /\ \E dto \in dtos :
         LET r == RegisterOutcome(users, dto) IN
         /\ users' = r.users
         /\ res' = [op |-> "register", dto |-> dto, out |-> r.out]
    /\ UNCHANGED <<links, tickets, attachments, assignees, freshMs, upd, cb,
                   loginErr>>

-----------------------------------------------------------------------------
(* AuthService.login *)

\* jwtService.sign(payload)
Sign(payload) == [jwt |-> payload]

LoginResult(usrs, id, message) ==
    Ok([access_token |-> Sign([sub |-> id, role |-> usrs[id].role]),
        userId |-> id, role |-> usrs[id].role, message |-> message])

\* a login that tells an unknown email from a wrong password
LoginOutcomeTelling(usrs, dto) ==
    LET found == FindByEmail(usrs, dto.email) IN
    IF found = {} THEN UnauthorizedException("User not found")
    ELSE LET id == CHOOSE i \in found : TRUE IN
         IF ~Compare(dto.password, usrs[id].password)
         THEN UnauthorizedException("Email or password incorrect")
         ELSE LoginResult(usrs, id, "Login success")

LoginOutcome(usrs, dto) ==
    LET found == FindByEmail(usrs, dto.email) IN
    IF found = {} THEN UnauthorizedException("Email or password incorrect")
    ELSE LET id == CHOOSE i \in found : TRUE IN
         IF ~Compare(dto.password, usrs[id].password)
         THEN UnauthorizedException("Email or password incorrect")
         ELSE LoginResult(usrs, id, "Login success")

\* loginErr keeps the latest outcome seen in each of the two failure cases:
\* no user has the email; a user has it and the password does not match
Login(dtos) ==
    /\ \E dto \in dtos :
         LET out == LoginOutcome(users, dto)
             found == FindByEmail(users, dto.email)
         IN /\ res' = [op |-> "login", dto |-> dto, out |-> out]
            /\ loginErr' =
                 IF found = {} THEN [loginErr EXCEPT !.nouser = <<out>>]
                 ELSE IF \A i \in found : ~Compare(dto.password, users[i].password)
                 THEN [loginErr EXCEPT !.badpw = <<out>>]
                 ELSE loginErr
    /\ UNCHANGED <<users, links, tickets, attachments, assignees, freshMs, upd,
                   cb>>

-----------------------------------------------------------------------------
(* AuthService.lineCallback *)

\* lineOAuth.exchangeCodeForToken: the provider knows the code or rejects it
ExchangeCodeForToken(code) ==
    CASE code = "code-U1" -> [ok |-> TRUE, access_token |-> "tok-U1", user_id |-> "U1"]
      [] code = "code-U2" -> [ok |-> TRUE, access_token |-> "tok-U2", user_id |-> "U2"]
      [] OTHER -> [ok |-> FALSE]

\* lineOAuth.getUserProfile: a profile may come without a display name
GetUserProfile(token) ==
    IF token = "tok-U1" THEN [displayName |-> "Ann on LINE"]
    ELSE [displayName |-> ""]

\* `line_${lineUserId}@line.com`
LineEmail(lineUserId) ==
    CASE lineUserId = "U1" -> "line_U1@line.com"
      [] lineUserId = "U2" -> "line_U2@line.com"

LinkedUsers(lnks, lineUserId) ==
    {l.userId : l \in {x \in lnks : x.lineUserId = lineUserId}}

\* a lookup by the lineId column of the user instead of the link row
FindFirstByLineIdColumn(usrs, lnks, lineUserId) ==
    LET found == {i \in 1..Len(usrs) : usrs[i].lineId = lineUserId} IN
    IF found = {} THEN <<>>
    ELSE <<CHOOSE i \in found : \A j \in found : i <= j>>

\* prisma.user.findFirst({where: {lineOALink: {lineUserId}}}): <<>> for null
FindFirstByLine(usrs, lnks, lineUserId) ==
    LET found == LinkedUsers(lnks, lineUserId) IN
    IF found = {} THEN <<>>
    ELSE <<CHOOSE i \in found : \A j \in found : i <= j>>

\* prisma.user.create with the nested lineOALink row, in one write
CreateLineUser(usrs, lnks, lineUserId, lineProfile) ==
    LET w == UserCreate(usrs,
                 [name |-> IF lineProfile.displayName # ""
                           THEN lineProfile.displayName ELSE "LINE User",
                  email |-> LineEmail(lineUserId),
                  password |-> Hash("random"),
                  role |-> "USER",
                  lineId |-> lineUserId,
                  via |-> "lineCallback"])
    IN IF w.code # "ok" THEN [code |-> w.code]
       ELSE [code |-> "ok", users |-> w.users, id |-> w.id,
             links |-> lnks \cup {[userId |-> w.id, lineUserId |-> lineUserId,
                                   status |-> "VERIFIED"]}]

\* what follows findFirst: create the user when none was found, else fill in
\* a missing lineId, then sign the token
AfterFind(usrs, lnks, ex, found) ==
    IF found = <<>>
    THEN LET c == CreateLineUser(usrs, lnks, ex.user_id,
                      GetUserProfile(ex.access_token))
         IN IF c.code # "ok"
            THEN [users |-> usrs, links |-> lnks, out |-> StoreError(c.code)]
            ELSE [users |-> c.users, links |-> c.links,
                  out |-> LoginResult(c.users, c.id, "LOGIN success via LINE")]
    ELSE LET id == found[1]
             updated == IF usrs[id].lineId \in {NULL, ""}
                        THEN [usrs EXCEPT ![id].lineId = ex.user_id]
                        ELSE usrs
         IN [users |-> updated, links |-> lnks,
             out |-> LoginResult(updated, id, "LOGIN success via LINE")]

\* the call as far as the store is concerned: what it met and what it got
CallbackCall(code, ex) ==
    [op |-> "lineCallback", code |-> code, ex |-> ex,
     before |-> [users |-> Len(users), links |-> links]]

LineCallback(codes) ==
    /\ \E code \in codes :
         LET ex == ExchangeCodeForToken(code) IN
         IF code = ""
         THEN /\ res' = CallbackCall(code, [ok |-> FALSE])
                          @@ [out |-> BadRequestException(
                                          "Authorization code is required")]
              /\ UNCHANGED <<users, links>>
         ELSE IF ~ex.ok
         THEN /\ res' = CallbackCall(code, ex)
                          @@ [out |-> Raise("Internal", "token exchange failed")]
              /\ UNCHANGED <<users, links>>
         ELSE LET r == AfterFind(users, links, ex,
                           FindFirstByLine(users, links, ex.user_id))
              IN /\ users' = r.users
                 /\ links' = r.links
                 /\ res' = CallbackCall(code, ex) @@ [out |-> r.out]
    /\ UNCHANGED <<tickets, attachments, assignees, freshMs, upd, cb, loginErr>>

-----------------------------------------------------------------------------
(* The auth service, one handler per step *)

\* an account that the account-linking flow has tied to provider user U2,
\* and that has no lineId yet
LinkedAccount ==
    [name |-> "Cy", email |-> "c@x.com", password |-> Hash("pw1"),
     role |-> "ADMIN", lineId |-> NULL, via |-> "register"]

InitAuth ==
    /\ \/ users = <<>> /\ links = {}
       \/ /\ users = <<LinkedAccount>>
          /\ links = {[userId |-> 1, lineUserId |-> "U2", status |-> "VERIFIED"]}
    /\ tickets = <<>>
    /\ attachments = <<>>
    /\ assignees = {}
    /\ freshMs = TRUE
    /\ res = NoCall
    /\ upd = Idle
    /\ cb = Idle
    /\ loginErr = NoLoginErr

RegisterDtos ==
    {[name |-> "Ann", email |-> e, password |-> pw] : e \in {"a@x.com", "line_U1@line.com"},
                                                     pw \in {"pw1", "pw2"}}
    \cup {[name |-> "Ann", email |-> "a@x.com", password |-> "pw1",
           lineId |-> "U1", role |-> "ADMIN"]}

LoginDtos ==
    [email : {"a@x.com", "line_U1@line.com", "nobody@x.com"},
     password : {"pw1", "pw2", "random"}]

Codes == {"", "code-U1", "code-U2", "code-unknown"}

NextAuth ==
    \/ Register(RegisterDtos)
    \/ Login(LoginDtos)
    \/ LineCallback(Codes)

SpecAuth == InitAuth /\ [][NextAuth]_vars

\* C2: login fails with the same error kind and message when the password
\* does not match a registered email as when no user has the email, and the
\* failure carries no token.
C2_SameLoginError ==
    /\ (loginErr.nouser # <<>> /\ loginErr.badpw # <<>>) =>
          loginErr.nouser = loginErr.badpw
    /\ \A e \in Range(loginErr.nouser) \cup Range(loginErr.badpw) :
          /\ ~e.ok
          /\ DOMAIN e = {"ok", "kind", "message"}

\* both failures have been seen: an unknown email, and a wrong password for
\* a registered one
C2_Witness ==
    /\ loginErr.nouser # <<>>
    /\ loginErr.badpw # <<>>
    /\ res.op = "login" /\ ~res.out.ok
    /\ FindByEmail(users, res.dto.email) # {}

CallbackDone == res.op = "lineCallback" /\ res.ex.ok

\* the users the provider id of the call was linked to when the call came
LinkedBefore == LinkedUsers(res.before.links, res.ex.user_id)

\* C6: when the provider user id of the code is already linked to a user U,
\* lineCallback returns U's id and role and creates neither a user nor a
\* link.
C6_ExistingLinkedUser ==
    (CallbackDone /\ LinkedBefore # {}) =>
        /\ res.out.ok
        /\ res.out.value.userId \in LinkedBefore
        /\ res.out.value.role = users[res.out.value.userId].role
        /\ Len(users) = res.before.users
        /\ links = res.before.links

\* a callback has answered with the linked account, an admin, in a store
\* that holds other accounts as well
C6_Witness ==
    /\ CallbackDone
    /\ LinkedBefore = {1}
    /\ res.out.ok /\ res.out.value.role = "ADMIN"
    /\ Len(users) > 1
-----------------------------------------------------------------------------
(* Concurrent callbacks: one awaited operation per step *)

CbBegin(p, codes) ==
    /\ cb[p].pc = "idle"
    /\ \E code \in codes :
         IF code = ""
         THEN /\ res' = CallbackCall(code, [ok |-> FALSE])
                          @@ [out |-> BadRequestException(
                                          "Authorization code is required")]
              /\ cb' = cb
         ELSE /\ cb' = [cb EXCEPT ![p] = [pc |-> "exchange", code |-> code]]
              /\ res' = res
    /\ UNCHANGED <<users, links, tickets, attachments, assignees, freshMs, upd,
                   loginErr>>

CbExchange(p) ==
    /\ cb[p].pc = "exchange"
    /\ LET ex == ExchangeCodeForToken(cb[p].code) IN
       IF ex.ok
       THEN /\ cb' = [cb EXCEPT ![p] =
                         [pc |-> "find", code |-> cb[p].code, ex |-> ex]]
            /\ res' = res
       ELSE /\ cb' = [cb EXCEPT ![p] = [pc |-> "idle"]]
            /\ res' = CallbackCall(cb[p].code, ex)
                        @@ [out |-> Raise("Internal", "token exchange failed")]
    /\ UNCHANGED <<users, links, tickets, attachments, assignees, freshMs, upd,
                   loginErr>>

CbFind(p) ==
    /\ cb[p].pc = "find"
    /\ cb' = [cb EXCEPT ![p] =
                 [pc |-> "write", code |-> cb[p].code, ex |-> cb[p].ex,
                  found |-> FindFirstByLine(users, links, cb[p].ex.user_id)]]
    /\ UNCHANGED <<users, links, tickets, attachments, assignees, freshMs, res,
                   upd, loginErr>>

\* the create or update that follows findFirst, and the return
CbWrite(p) ==
    /\ cb[p].pc = "write"
    /\ LET r == AfterFind(users, links, cb[p].ex, cb[p].found) IN
       /\ users' = r.users
       /\ links' = r.links
       /\ res' = CallbackCall(cb[p].code, cb[p].ex)
                   @@ [out |-> r.out, found |-> cb[p].found]
    /\ cb' = [cb EXCEPT ![p] = [pc |-> "idle"]]
    /\ UNCHANGED <<tickets, attachments, assignees, freshMs, upd, loginErr>>

ConcRegisterDtos ==
    {[name |-> "Ann", email |-> "line_U1@line.com", password |-> "pw1"],
     [name |-> "Ann", email |-> "a@x.com", password |-> "pw1", lineId |-> "U1"]}

NextAuthConc ==
    \/ Register(ConcRegisterDtos)
    \/ \E p \in Procs : CbBegin(p, Codes)
    \/ \E p \in Procs : CbExchange(p)
    \/ \E p \in Procs : CbFind(p)
    \/ \E p \in Procs : CbWrite(p)

SpecAuthConc == InitAuth /\ [][NextAuthConc]_vars

ProviderIds == {"U1", "U2"}

LinksOf(lineUserId) == {l \in links : l.lineUserId = lineUserId}

\* C10: however lineCallback calls interleave with each other and with
\* register, a provider user id is linked to at most one user by at most one
\* link row, and every user that lineCallback created has role USER and a
\* VERIFIED link that carries the provider id.
C10_OneUserPerProviderId ==
    /\ \A lid \in ProviderIds :
          /\ Cardinality(LinksOf(lid)) <= 1
          /\ Cardinality(LinkedUsers(links, lid)) <= 1
    /\ \A l \in links : l.userId \in 1..Len(users)
    /\ \A i \in 1..Len(users) :
          users[i].via = "lineCallback" =>
              /\ users[i].role = "USER"
              /\ users[i].lineId \in ProviderIds
              /\ users[i].email = LineEmail(users[i].lineId)
              /\ [userId |-> i, lineUserId |-> users[i].lineId,
                  status |-> "VERIFIED"] \in links

\* two first-time callbacks for the same provider user both found no user;
\* one has created it and the create of the other was refused
C10_Witness ==
    /\ res.op = "lineCallback"
    /\ "found" \in DOMAIN res /\ res.found = <<>>
    /\ ~res.out.ok /\ res.out.message = "P2002"
    /\ Cardinality(LinksOf(res.ex.user_id)) = 1
    /\ \E i \in 1..Len(users) :
          users[i].via = "lineCallback" /\ users[i].lineId = res.ex.user_id
====
